---- MODULE Spec2Model ----
(***************************************************************************)
(* A model of the Kademlia node of internal/kademlia/node.go: the node     *)
(* facade (InitNode/JoinNetwork, NodeLookup, FindValue, StoreValue, Ping,  *)
(* updateBucket, updateContent) over a routing table, a value store and an *)
(* RPC client.  The routing table, the contact list type and the RPC       *)
(* client/server live in files that are not part of src/; they are         *)
(* modelled from the design document (sections 4.2 - 4.4).                 *)
(*                                                                         *)
(* NodeIDs are IDBits wide instead of 160, a bucket holds BucketSize       *)
(* contacts instead of 20, SHA-1 is a fixed injective table on the values  *)
(* of the model.  Strings are sequences of one-character strings, so that  *)
(* strconv.FormatInt, strconv.ParseInt, strings.Split and                  *)
(* hex.EncodeToString are computed, not assumed.                           *)
(*                                                                         *)
(* Specifications: Spec (the operations of the nodes, a call at a time),   *)
(* SpecMesh (lookups in a connected mesh), SpecTTL (the clock and the      *)
(* expiry sweep), SpecBucket (updateBucket on the buckets of a mesh),      *)
(* SpecRace (the sweep goroutine beside the reads and writes of the map),  *)
(* SpecRounds and SpecRoundsFair (NodeLookup and FindValue loop by loop),  *)
(* SpecCodec (NewRPC, MarshalRPC and UnmarshalRPC of the RPC envelope,     *)
(* with the JSON text as a sequence of tokens).                            *)
(***************************************************************************)
EXTENDS Integers, Sequences, FiniteSets, TLC

\* ------------------------------------------------------------------ bounds
\* width of a NodeID in bits (160 in the program)
IDBits == 4
\* capacity of a k-bucket (K = 20 in the program)
BucketSize == 1
\* the clock (seconds) runs from 0 to MaxTime
MaxTime == 12

\* --------------------------------------------------------- program constants
\* node.go:98, node.go:154  alpha := 1
alpha == 1
\* node.go:68  kademlia.deadline = 10
deadline == 10
\* node.go:15  const updateTimer = 10
updateTimer == 10

\* ---------------------------------------------------------------- NodeIDs
RECURSIVE Pow2(_)
Pow2(n) == IF n = 0 THEN 1 ELSE 2 * Pow2(n - 1)

IDs == 0 .. (Pow2(IDBits) - 1)

\* the nodes of the network
Nodes == {8, 12, 15}

RECURSIVE XorN(_, _)
XorN(a, b) ==
    IF a = 0 /\ b = 0 THEN 0
    ELSE (((a % 2) + (b % 2)) % 2) + 2 * XorN(a \div 2, b \div 2)

\* Contact.CalcDistance: the XOR of the contact's ID with the target
CalcDistance(id, target) == XorN(id, target)

\* node.go:102-103  the sentinel "furthest away a node can be": all bits set
MaxDistance == Pow2(IDBits) - 1

RECURSIVE HighBit(_)
HighBit(d) == IF d <= 1 THEN 0 ELSE 1 + HighBit(d \div 2)

\* bucket index of id in the table of me: the position, counted from the
\* least significant bit, of the highest set bit of me XOR id
getBucketIndex(me, id) == HighBit(XorN(me, id))

BucketIdx == 0 .. (IDBits - 1)

\* ---------------------------------------------------------------- strings
Digits == <<"0", "1", "2", "3", "4", "5", "6", "7", "8", "9">>
HexDigits == <<"0", "1", "2", "3", "4", "5", "6", "7",
               "8", "9", "a", "b", "c", "d", "e", "f">>

\* number of hex digits of an encoded NodeID
HexLen == (IDBits + 3) \div 4

\* strconv.FormatInt(n, 10) for n >= 0
RECURSIVE FormatInt(_)
FormatInt(n) ==
    IF n < 10 THEN <<Digits[n + 1]>>
    ELSE Append(FormatInt(n \div 10), Digits[(n % 10) + 1])

DigitVal(c) == CHOOSE i \in 0 .. 9 : Digits[i + 1] = c
IsDigit(c) == \E i \in 0 .. 9 : Digits[i + 1] = c

RECURSIVE ParseDigits(_, _)
ParseDigits(s, acc) ==
    IF s = <<>> THEN acc
    ELSE ParseDigits(Tail(s), 10 * acc + DigitVal(Head(s)))

\* strconv.ParseInt(s, 10, 64): on a syntax error the result is 0 and err is set
ParseInt(s) ==
    IF s # <<>> /\ \A i \in 1 .. Len(s) : IsDigit(s[i])
    THEN [n |-> ParseDigits(s, 0), err |-> FALSE]
    ELSE [n |-> 0, err |-> TRUE]

\* strings.Split(s, ":"): the segments between the separators, at least one
RECURSIVE Split(_)
Split(s) ==
    IF \A i \in 1 .. Len(s) : s[i] # ":" THEN <<s>>
    ELSE LET k == CHOOSE i \in 1 .. Len(s) :
                      s[i] = ":" /\ \A j \in 1 .. (i - 1) : s[j] # ":"
         IN <<SubSeq(s, 1, k - 1)>> \o Split(SubSeq(s, k + 1, Len(s)))

\* hex.EncodeToString of an ID of IDBits bits: HexLen lowercase digits
RECURSIVE HexEncodeN(_, _)
HexEncodeN(id, n) ==
    IF n = 0 THEN <<>>
    ELSE Append(HexEncodeN(id \div 16, n - 1), HexDigits[(id % 16) + 1])

HexEncode(id) == HexEncodeN(id, HexLen)

HexVal(c) == CHOOSE i \in 0 .. 15 : HexDigits[i + 1] = c

RECURSIVE HexDecode(_, _)
HexDecode(s, acc) ==
    IF s = <<>> THEN acc
    ELSE HexDecode(Tail(s), 16 * acc + HexVal(Head(s)))

\* NewNodeID(hex string)
NewNodeID(s) == HexDecode(s, 0) % Pow2(IDBits)

\* the values a caller stores; one of them contains the separator
Values == {<<"a">>, <<"a", ":", "b">>}

\* sha1.Sum of a value: a fixed injective table on Values
SHA1(data) == IF data = <<"a">> THEN 14 ELSE 9


\* hex.EncodeToString(sha1.Sum(data)): the key under which data is stored
KeyOf(data) == HexEncode(SHA1(data))

\* ------------------------------------------------------- contact lists
\* ascending by XOR distance to target (ContactCandidates.Sort after
\* CalcDistance); IDs are distinct, so distances are
RECURSIVE SortByDistance(_, _)
SortByDistance(S, target) ==
    IF S = {} THEN <<>>
    ELSE LET m == CHOOSE x \in S :
                      \A y \in S : CalcDistance(x, target) <= CalcDistance(y, target)
         IN <<m>> \o SortByDistance(S \ {m}, target)

Range(s) == {s[i] : i \in 1 .. Len(s)}

FirstN(s, k) == SubSeq(s, 1, IF Len(s) < k THEN Len(s) ELSE k)

\* the list without its element at (1-based) position i:
\* append(contacts[:i], contacts[i+1:]...)
RemoveAt(s, i) == SubSeq(s, 1, i - 1) \o SubSeq(s, i + 1, Len(s))

\* ------------------------------------------------------- routing table
\* a table is a function from bucket index to a sequence of IDs, the
\* least-recently-seen contact at the front
EmptyTable == [b \in BucketIdx |-> <<>>]

TableContacts(t) == UNION {Range(t[b]) : b \in BucketIdx}

\* bucket.Contains
BucketContains(bucket, c) == c \in Range(bucket)

\* bucket.GetFirst: the least-recently-seen contact
GetFirst(bucket) == bucket[1]

\* RoutingTable.RemoveContact
RemoveContact(t, me, c) ==
    IF c = me THEN t
    ELSE [t EXCEPT ![getBucketIndex(me, c)] = SelectSeq(@, LAMBDA x : x # c)]

\* RoutingTable.AddContact: a known contact moves to the back, a new one is
\* pushed to the back while the bucket has room; the node itself is ignored
AddContact(t, me, c) ==
    IF c = me THEN t
    ELSE LET b == getBucketIndex(me, c) IN
         IF BucketContains(t[b], c)
         THEN [t EXCEPT ![b] = Append(SelectSeq(@, LAMBDA x : x # c), c)]
         ELSE IF Len(t[b]) < BucketSize
              THEN [t EXCEPT ![b] = Append(@, c)]
              ELSE t

\* RoutingTable.FindClosestContacts(target, count)
FindClosestContacts(t, target, count) ==
    FirstN(SortByDistance(TableContacts(t), target), count)

\* ----------------------------------------------------------- the world
\* A world is the state the nodes share: w.rt[n] the routing table of n,
\* w.content[n] its value store (a function from the keys present to the
\* stored strings), w.started[n] whether its process runs (InitNode has
\* returned and the process has not panicked since).
NoContent == [k \in {} |-> <<>>]

WithRT(w, n, t) == [w EXCEPT !.rt[n] = t]

\* a panic ends the process of n: its table and its store are gone, and the
\* node answers no RPC until a new process runs InitNode
Crash(w, n) ==
    [w EXCEPT !.rt[n] = EmptyTable, !.content[n] = NoContent, !.started[n] = FALSE]

\* insertLocalStore: kademlia.content[key] = value
insertLocalStore(w, n, key, value) ==
    [w EXCEPT !.content[n] =
        [k \in (DOMAIN @) \cup {key} |-> IF k = key THEN value ELSE @[k]]]

\* ------------------------------------------------- the peer's RPC handlers
\* what an RPC can end in
Timeout == "timeout"
Honest == "ok"
EmptyReply == "empty"
NoPayload == "noPayload"
NoType == "noType"
NoSeparator == "noSeparator"
ErrorReply == "error"
AllKinds == {Timeout, ErrorReply, Honest, EmptyReply, NoPayload, NoType, NoSeparator}

\* The worlds after peer p has offered the sender s to its routing table
\* before it replies: a full bucket pings its least-recently-seen contact,
\* which answers (it moves to the back, s is discarded) or does not (it is
\* removed, s is pushed to the back).
HandlerOffer(w, p, s, kinds) ==
    IF s = p THEN {w}
    ELSE LET t == w.rt[p]
             b == getBucketIndex(p, s)
         IN IF BucketContains(t[b], s) \/ Len(t[b]) < BucketSize
            THEN {WithRT(w, p, AddContact(t, p, s))}
            ELSE LET f == GetFirst(t[b]) IN
                 (IF Timeout \in kinds \/ ~w.started[f]
                  THEN {WithRT(w, p, AddContact(RemoveContact(t, p, f), p, s))}
                  ELSE {})
                 \cup (IF w.started[f] THEN {WithRT(w, p, AddContact(t, p, f))} ELSE {})

\* A reply is [err, nil, type, payload, value, contacts, w]: err the client's
\* error, nil whether the *RPC is nil, type "OK" or "" (absent), payload
\* whether Payload is non-nil, value the payload's value (<<>> when absent),
\* contacts the payload's contact list, w the world after the peer handled
\* the request.
Reply(w, err, isnil, type, payload, value, contacts) ==
    [err |-> err, nil |-> isnil, type |-> type, payload |-> payload,
     value |-> value, contacts |-> contacts, w |-> w]

\* no reply within the wait: the client returns (nil, err), as NewRPC does
TimeoutReply(w) == Reply(w, TRUE, TRUE, "", FALSE, <<>>, <<>>)

\* the failures of an RPC: the timeout, and a reply the client hands over
\* together with an error
Failures(w, kinds) ==
    (IF Timeout \in kinds THEN {TimeoutReply(w)} ELSE {})
    \cup (IF ErrorReply \in kinds THEN {Reply(w, TRUE, FALSE, "", TRUE, <<>>, <<>>)} ELSE {})

\* replies of a misbehaving peer, by kind
Misbehave(w, kinds) ==
    (IF EmptyReply \in kinds THEN {Reply(w, FALSE, FALSE, "OK", TRUE, <<>>, <<>>)} ELSE {})
    \cup (IF NoPayload \in kinds THEN {Reply(w, FALSE, FALSE, "OK", FALSE, <<>>, <<>>)} ELSE {})

\* client.SendPingMessage(target, me)
SendPingMessage(w, n, p, kinds) ==
    Failures(w, kinds)
    \cup (IF Honest \in kinds /\ w.started[p]
          THEN {Reply(w2, FALSE, FALSE, "OK", TRUE, <<>>, <<>>) : w2 \in HandlerOffer(w, p, n, kinds)}
          ELSE {})
    \cup (IF NoType \in kinds THEN {Reply(w, FALSE, FALSE, "", TRUE, <<>>, <<>>)} ELSE {})

\* client.SendFindContactMessage(target, me, targetID)
SendFindContactMessage(w, n, p, targetID, kinds) ==
    Failures(w, kinds)
    \cup (IF Honest \in kinds /\ w.started[p]
          THEN {Reply(w2, FALSE, FALSE, "OK", TRUE, <<>>,
                      FindClosestContacts(w2.rt[p], targetID, BucketSize)) :
                    w2 \in HandlerOffer(w, p, n, kinds)}
          ELSE {})
    \cup Misbehave(w, kinds)

\* client.SendFindDataMessage(target, me, hash)
SendFindDataMessage(w, n, p, hash, kinds) ==
    Failures(w, kinds)
    \cup (IF Honest \in kinds /\ w.started[p]
          THEN {IF hash \in DOMAIN w2.content[p]
                THEN Reply(w2, FALSE, FALSE, "OK", TRUE, w2.content[p][hash], <<>>)
                ELSE Reply(w2, FALSE, FALSE, "OK", TRUE, <<>>,
                           FindClosestContacts(w2.rt[p], NewNodeID(hash), BucketSize)) :
                    w2 \in HandlerOffer(w, p, n, kinds)}
          ELSE {})
    \cup (IF NoSeparator \in kinds
          THEN {Reply(w, FALSE, FALSE, "OK", TRUE, <<"a">>, <<>>)} ELSE {})
    \cup Misbehave(w, kinds)

\* client.SendStoreMessage(target, me, key, data)
SendStoreMessage(w, n, p, key, data, kinds) ==
    Failures(w, kinds)
    \cup (IF Honest \in kinds /\ w.started[p]
          THEN {Reply(insertLocalStore(w2, p, key, data), FALSE, FALSE, "OK", TRUE, <<>>, <<>>) :
                    w2 \in HandlerOffer(w, p, n, kinds)}
          ELSE {})


\* ------------------------------------------------------------- the node
\* A run of an operation is [w, ret, panic, rpcs, nodes]: the world it
\* leaves, what it returns, whether it panicked instead of returning, the
\* RPCs it sent, in order, and (for StoreValue) the local variable nodes
\* with the table the lookup left.  An operation is the set of its runs,
\* one per choice of the outcomes of its RPCs.
NoNodes == [list |-> <<>>, table |-> {}]

Run(w, ret, panic, rpcs) ==
    [w |-> w, ret |-> ret, panic |-> panic, rpcs |-> rpcs, nodes |-> NoNodes]

Ev(p, type, rep) == [to |-> p, type |-> type, err |-> rep.err, value |-> rep.value]

\* what a run that panicked "returns"
NoReturn == <<>>

\* Ping (node.go:293-302)
Ping(w, n, target, kinds) ==
    {LET ev == <<Ev(target, "PING", rep)>> IN
     IF rep.err
     THEN Run(WithRT(rep.w, n, RemoveContact(rep.w.rt[n], n, target)), NoReturn, FALSE, ev)
     ELSE IF rep.type = ""
          THEN Run(Crash(rep.w, n), NoReturn, TRUE, ev)
          ELSE IF rep.type = "OK"
               THEN Run(WithRT(rep.w, n, AddContact(rep.w.rt[n], n, target)), NoReturn, FALSE, ev)
               ELSE Run(rep.w, NoReturn, FALSE, ev) :
        rep \in SendPingMessage(w, n, target, kinds)}

\* updateBucket (node.go:307-320)
updateBucket(w, n, contact, kinds) ==
    LET b == getBucketIndex(n, contact)
        bucket == w.rt[n][b]
    IN IF Len(bucket) < BucketSize \/ BucketContains(bucket, contact)
       THEN {Run(WithRT(w, n, AddContact(w.rt[n], n, contact)), NoReturn, FALSE, <<>>)}
       ELSE {IF ~r.panic /\ Len(r.w.rt[n][b]) < BucketSize
             THEN Run(WithRT(r.w, n, AddContact(r.w.rt[n], n, contact)), NoReturn, FALSE, r.rpcs)
             ELSE r :
                r \in Ping(w, n, GetFirst(bucket), kinds)}

\* ContactCandidates.AppendUnique, Sort and the cut to BucketSize, as
\* appendUniqueContacts applies them to its own copy of the shortlist
MergedShortlist(me, shortList, contacts, targetID) ==
    FirstN(SortByDistance(Range(shortList) \cup (Range(contacts) \ {me}), targetID),
           BucketSize)

\* appendUniqueContacts (node.go:240-255), seen from the caller.  shortList,
\* currentClosest and updateClosest are passed by value, so the caller keeps
\* its slice header (the length), its currentClosest (the sentinel) and its
\* updateClosest (false).  The callee appends to and sorts its copy of the
\* slice: when the appended contacts fit the capacity of the backing array
\* the sort happens in the array the caller shares, otherwise in a new one.
\* The capacity is decided by FindClosestContacts, so both are possible.
appendUniqueContacts(me, shortList, contacts, targetID) ==
    IF CalcDistance(contacts[1], targetID) < MaxDistance
    THEN {shortList,
          FirstN(MergedShortlist(me, shortList, contacts, targetID), Len(shortList))}
    ELSE {shortList}

\* updateShortlist (node.go:213-236) for the reply rep of shortList[i]: the
\* runs, each returning the caller's shortlist.  probedNodes and numProbed
\* are the callee's copies: the caller's stay empty and 0.
updateShortlist(w, n, targetID, shortList, i, rep, kinds) ==
    UNION {IF u.panic THEN {u}
           ELSE IF ~rep.payload \/ rep.contacts = <<>>
                THEN {Run(Crash(u.w, n), NoReturn, TRUE, u.rpcs)}
                ELSE {Run(u.w, sl, FALSE, u.rpcs) :
                        sl \in appendUniqueContacts(n, shortList, rep.contacts, targetID)} :
              u \in updateBucket(w, n, shortList[i], kinds)}

\* the values of the caller's loop variables that no callee can change
numProbed == 0
updateClosest == FALSE
probedNodes == <<>>

\* the inner loop of NodeLookup (node.go:112-139) from index i (1-based)
RECURSIVE LookupLoop(_, _, _, _, _, _, _)
LookupLoop(w, n, targetID, shortList, i, rpcs, kinds) ==
    IF ~(i <= Len(shortList) /\ numProbed < alpha)
    THEN {Run(w, shortList, FALSE, rpcs)}
    ELSE IF shortList[i] \in Range(probedNodes)
    THEN LookupLoop(w, n, targetID, shortList, i + 1, rpcs, kinds)
    ELSE UNION {
        LET sent == Append(rpcs, Ev(shortList[i], "FIND_NODE", rep)) IN
        IF rep.err
        THEN LookupLoop(WithRT(rep.w, n, RemoveContact(rep.w.rt[n], n, shortList[i])),
                        n, targetID, RemoveAt(shortList, i), i + 1, sent, kinds)
        ELSE UNION {IF u.panic THEN {Run(u.w, NoReturn, TRUE, sent \o u.rpcs)}
                    ELSE LookupLoop(u.w, n, targetID, u.ret, i + 1, sent \o u.rpcs, kinds) :
                       u \in updateShortlist(rep.w, n, targetID, shortList, i, rep, kinds)} :
        rep \in SendFindContactMessage(w, n, shortList[i], targetID, kinds)}

\* NodeLookup, had it probed its own node when the table has no contact
NodeLookup_ProbeSelf(w, n, targetID, kinds) ==
    LookupLoop(w, n, targetID,
               IF TableContacts(w.rt[n]) = {} THEN <<n>>
               ELSE FindClosestContacts(w.rt[n], targetID, alpha),
               1, <<>>, kinds)

\* NodeLookup (node.go:97-146).  The outer loop runs its body once:
\* updateClosest is false when the round ends (node.go:140).
NodeLookup(w, n, targetID, kinds) ==
    LookupLoop(w, n, targetID, FindClosestContacts(w.rt[n], targetID, alpha), 1, <<>>, kinds)


\* the loop of StoreValue, had it kept the peer whose STORE failed
RECURSIVE StoreLoop_KeepFailed(_, _, _, _, _, _, _, _)
StoreLoop_KeepFailed(w, n, nodes, j, key, dataPackage, rpcs, kinds) ==
    IF j > Len(nodes) THEN {Run(w, key, FALSE, rpcs)}
    ELSE UNION {
        LET sent == Append(rpcs, Ev(nodes[j], "STORE", rep)) IN
        IF rep.err
        THEN StoreLoop_KeepFailed(rep.w, n, nodes, j + 1, key, dataPackage, sent, kinds)
        ELSE UNION {IF u.panic THEN {Run(u.w, NoReturn, TRUE, sent \o u.rpcs)}
                    ELSE StoreLoop_KeepFailed(u.w, n, nodes, j + 1, key, dataPackage,
                                              sent \o u.rpcs, kinds) :
                       u \in updateBucket(rep.w, n, nodes[j], kinds)} :
        rep \in SendStoreMessage(w, n, nodes[j], key, dataPackage, kinds)}

\* the loop of StoreValue over the nodes of the lookup (node.go:274-285)
RECURSIVE StoreLoop(_, _, _, _, _, _, _, _)
StoreLoop(w, n, nodes, j, key, dataPackage, rpcs, kinds) ==
    IF j > Len(nodes) THEN {Run(w, key, FALSE, rpcs)}
    ELSE UNION {
        LET sent == Append(rpcs, Ev(nodes[j], "STORE", rep)) IN
        IF rep.err
        THEN StoreLoop(WithRT(rep.w, n, RemoveContact(rep.w.rt[n], n, nodes[j])),
                       n, nodes, j + 1, key, dataPackage, sent, kinds)
        ELSE UNION {IF u.panic THEN {Run(u.w, NoReturn, TRUE, sent \o u.rpcs)}
                    ELSE StoreLoop(u.w, n, nodes, j + 1, key, dataPackage,
                                   sent \o u.rpcs, kinds) :
                       u \in updateBucket(rep.w, n, nodes[j], kinds)} :
        rep \in SendStoreMessage(w, n, nodes[j], key, dataPackage, kinds)}

\* the string StoreValue sends: strconv.FormatInt(sec, 10) + ":" + data
DataPackage(sec, data) == FormatInt(sec) \o <<":">> \o data

\* StoreValue (node.go:259-288) at time sec
StoreValue(w, n, data, sec, kinds) ==
    LET key == KeyOf(data)
        targetID == NewNodeID(key)
    IN UNION {IF l.panic THEN {l}
              ELSE {[s EXCEPT !.nodes = [list |-> l.ret,
                                         table |-> TableContacts(l.w.rt[n])]] :
                      s \in StoreLoop(l.w, n, l.ret, 1, key, DataPackage(sec, data),
                                      l.rpcs, kinds)} :
                 l \in NodeLookup(w, n, targetID, kinds)}

\* what FindValue returns, the pair (value, error): (value, nil) or
\* ("", errors.New("no value found")); the error is its message, "" for nil
Found(value) == <<value, "">>
NotFound == <<<<>>, "no value found">>

\* the inner loop of FindValue (node.go:168-203) from index i (1-based)
RECURSIVE FindLoop(_, _, _, _, _, _, _, _)
FindLoop(w, n, hash, shortList, i, rpcs, sec, kinds) ==
    IF ~(i <= Len(shortList) /\ numProbed < alpha)
    THEN {Run(w, NotFound, FALSE, rpcs)}
    ELSE IF shortList[i] \in Range(probedNodes)
    THEN FindLoop(w, n, hash, shortList, i + 1, rpcs, sec, kinds)
    ELSE UNION {
        LET sent == Append(rpcs, Ev(shortList[i], "FIND_VALUE", rep)) IN
        IF rep.nil \/ ~rep.payload
        THEN {Run(Crash(rep.w, n), NoReturn, TRUE, sent)}
        ELSE IF rep.value # <<>>
        THEN IF Len(Split(rep.value)) < 2
             THEN {Run(Crash(rep.w, n), NoReturn, TRUE, sent)}
             ELSE {IF s.panic THEN Run(s.w, NoReturn, TRUE, sent \o s.rpcs)
                   ELSE Run(s.w, Found(rep.value), FALSE, sent \o s.rpcs) :
                      s \in StoreValue(rep.w, n, Split(rep.value)[2], sec, kinds)}
        ELSE IF rep.err
        THEN FindLoop(WithRT(rep.w, n, RemoveContact(rep.w.rt[n], n, shortList[i])),
                      n, hash, RemoveAt(shortList, i), i + 1, sent, sec, kinds)
        ELSE UNION {IF u.panic THEN {Run(u.w, NoReturn, TRUE, sent \o u.rpcs)}
                    ELSE FindLoop(u.w, n, hash, u.ret, i + 1, sent \o u.rpcs, sec, kinds) :
                       u \in updateShortlist(rep.w, n, NewNodeID(hash), shortList, i, rep, kinds)} :
        rep \in SendFindDataMessage(w, n, shortList[i], hash, kinds)}

\* FindValue, had it not looked in the local store first
FindValue_SkipLocal(w, n, hash, sec, kinds) ==
    FindLoop(w, n, hash, FindClosestContacts(w.rt[n], NewNodeID(hash), alpha),
             1, <<>>, sec, kinds)

\* FindValue (node.go:149-211) at time sec
FindValue(w, n, hash, sec, kinds) ==
    IF hash \in DOMAIN w.content[n]
    THEN {Run(w, Found(w.content[n][hash]), FALSE, <<>>)}
    ELSE FindLoop(w, n, hash, FindClosestContacts(w.rt[n], NewNodeID(hash), alpha),
                  1, <<>>, sec, kinds)

\* one pass of updateContent over the map (node.go:77-92) at time sec: a
\* record stays unless its timestamp plus the deadline is before sec
updateContent(w, n, sec) ==
    LET c == w.content[n]
        expired(k) == ((ParseInt(Split(c[k])[1]).n + deadline) - sec) < 0
    IN [w EXCEPT !.content[n] = [k \in {x \in DOMAIN c : ~expired(x)} |-> c[k]]]

\* JoinNetwork, had it not added the rendezvous before the lookup
JoinNetwork_NoAdd(w, n, target, sec, kinds) ==
    {Run(l.w, NoReturn, l.panic, l.rpcs) : l \in NodeLookup(w, n, n, kinds)}

\* generateRefreshNodeValue (node.go:333-352) for a bucket index below 8:
\* the ID whose only set bit is the bit bucketIndex.  bytePos is 19, so the
\* loop that mixes random bytes in (node.go:346-349) has no iteration and
\* the seed decides nothing.
generateRefreshNodeValue(bucketIndex, seed) == Pow2(bucketIndex % 8) % Pow2(IDBits)

\* the loop of refreshNodes (node.go:355-359) from i, with the condition as
\* it is written: i > 159, the last bucket index (here IDBits - 1)
RECURSIVE RefreshLoop(_, _, _, _, _, _)
RefreshLoop(w, n, i, sec, rpcs, kinds) ==
    IF ~(i > IDBits - 1)
    THEN {Run(w, NoReturn, FALSE, rpcs)}
    ELSE UNION {IF l.panic THEN {Run(l.w, NoReturn, TRUE, rpcs \o l.rpcs)}
                ELSE RefreshLoop(l.w, n, i + 1, sec, rpcs \o l.rpcs, kinds) :
                   l \in NodeLookup(w, n, generateRefreshNodeValue(i, sec), kinds)}

\* refreshNodes (node.go:354-360) at time sec, after the RPCs rpcs
refreshNodes(w, n, sec, rpcs, kinds) == RefreshLoop(w, n, 1, sec, rpcs, kinds)

\* JoinNetwork (node.go:364-370) at time sec
JoinNetwork(w, n, target, sec, kinds) ==
    UNION {IF l.panic THEN {Run(l.w, NoReturn, TRUE, l.rpcs)}
           ELSE refreshNodes(l.w, n, sec, l.rpcs, kinds) :
              l \in NodeLookup(WithRT(w, n, AddContact(w.rt[n], n, target)), n, n, kinds)}


\* ------------------------------------------------------------ the state
VARIABLES
    rt,         \* rt[n]: the routing table of node n (Node.RT)
    content,    \* content[n]: the value store of node n (Node.content)
    started,    \* started[n]: the process of n runs and InitNode has returned
    now,        \* the clock, in seconds (time.Now().Unix())
    nextSweep,  \* nextSweep[n]: when the sweep task of n wakes from its sleep
    last,       \* the operation that ran last: who, what, its result, its RPCs
    sweeping,   \* sweeping[n]: the sweep task of n is inside its pass over the map
    call        \* the lookup that is in progress, loop by loop: its local variables

vars == <<rt, content, started, now, nextSweep, last, sweeping, call>>

\* no lookup is in progress
\* (closest is the distance of currentClosest; progress is whether a callee
\* of this round found a contact closer than its currentClosest; sent is the
\* peers probed so far, in order)
NoCall == [pc |-> "idle", op |-> "none", node |-> 0, target |-> 0, hash |-> <<>>,
           shortList |-> <<>>, probedNodes |-> <<>>, closest |-> 0, i |-> 0,
           numProbed |-> 0, updateClosest |-> FALSE, progress |-> FALSE,
           rounds |-> 0, sent |-> <<>>]

World == [rt |-> rt, content |-> content, started |-> started]

\* the rendezvous node: the ID 00000000000000000000000000000000FFFFFFFF
\* (node.go:36) cut to IDBits bits
Rendezvous == 15

\* the IDs lookups are asked for: the nodes and the keys of the values
Targets == Nodes \cup {SHA1(v) : v \in Values}

\* the keys value-lookups are asked for
Keys == {KeyOf(v) : v \in Values}

Last(op, n, arg, r) ==
    [op |-> op, node |-> n, arg |-> arg, sec |-> now,
     ret |-> r.ret, panic |-> r.panic, rpcs |-> r.rpcs, nodes |-> r.nodes]

NoRun == Run(World, NoReturn, FALSE, <<>>)

NoOp == [op |-> "none", node |-> Rendezvous, arg |-> Rendezvous, sec |-> 0,
         ret |-> NoReturn, panic |-> FALSE, rpcs |-> <<>>, nodes |-> NoNodes]

Apply(r) ==
    /\ rt' = r.w.rt
    /\ content' = r.w.content
    /\ started' = r.w.started

\* no operation is waiting to hand its result to its caller
Idle == last.op = "none"

Running(n) == Idle /\ started[n]

\* InitNode (node.go:27-74).  A node that is not the rendezvous pings the
\* rendezvous until a ping comes back without an error and joins; every
\* node then creates its value store and starts the sweep task, which is not
\* in its loop yet.
InitNode(n, kinds) ==
    /\ Idle /\ ~started[n]
    /\ IF n = Rendezvous
       THEN /\ Apply(Run([World EXCEPT !.started[n] = TRUE], NoReturn, FALSE, <<>>))
            /\ last' = Last("InitNode", n, Rendezvous, NoRun)
       ELSE \E rep \in SendPingMessage(World, n, Rendezvous, kinds) :
               /\ ~rep.err
               /\ \E r \in JoinNetwork(rep.w, n, Rendezvous, now, kinds) :
                     /\ Apply(IF r.panic THEN r
                              ELSE [r EXCEPT !.w.content[n] = NoContent,
                                             !.w.started[n] = TRUE])
                     /\ last' = Last("InitNode", n, Rendezvous,
                                     [r EXCEPT !.rpcs = <<Ev(Rendezvous, "PING", rep)>> \o @])
    /\ nextSweep' = [nextSweep EXCEPT ![n] = now]
    /\ sweeping' = [sweeping EXCEPT ![n] = FALSE]
    /\ UNCHANGED <<now, call>>

DoNodeLookup(n, targetID, kinds) ==
    /\ Running(n)
    /\ \E r \in NodeLookup(World, n, targetID, kinds) :
          Apply(r) /\ last' = Last("NodeLookup", n, targetID, r)
    /\ UNCHANGED <<now, nextSweep, sweeping, call>>

DoStoreValue(n, data, kinds) ==
    /\ Running(n)
    /\ \E r \in StoreValue(World, n, data, now, kinds) :
          Apply(r) /\ last' = Last("StoreValue", n, data, r)
    /\ UNCHANGED <<now, nextSweep, sweeping, call>>

DoFindValue(n, hash, kinds) ==
    /\ Running(n)
    /\ \E r \in FindValue(World, n, hash, now, kinds) :
          Apply(r) /\ last' = Last("FindValue", n, hash, r)
    /\ UNCHANGED <<now, nextSweep, sweeping, call>>

DoPing(n, target, kinds) ==
    /\ Running(n)
    /\ target # n
    /\ \E r \in Ping(World, n, target, kinds) :
          Apply(r) /\ last' = Last("Ping", n, target, r)
    /\ UNCHANGED <<now, nextSweep, sweeping, call>>

\* updateBucket for a contact the node has just heard from (node.go:223-226,
\* 281-283)
DoUpdateBucket(n, contact, kinds) ==
    /\ Running(n)
    /\ contact # n
    /\ \E r \in updateBucket(World, n, contact, kinds) :
          Apply(r) /\ last' = Last("updateBucket", n, contact, r)
    /\ UNCHANGED <<now, nextSweep, sweeping, call>>

\* the sweep task (node.go:69-73): a pass of updateContent, then the sleep
\* of updateTimer seconds
Sweep(n) ==
    /\ Running(n)
    /\ now >= nextSweep[n]
    /\ Apply(Run(updateContent(World, n, now), NoReturn, FALSE, <<>>))
    /\ nextSweep' = [nextSweep EXCEPT ![n] = now + updateTimer]
    /\ last' = Last("updateContent", n, n, NoRun)
    /\ UNCHANGED <<now, sweeping, call>>

\* the sweep task enters the loop over the map (node.go:77); nothing guards
\* the map, so the other goroutines of the node go on
SweepBegin(n) ==
    /\ Running(n)
    /\ ~sweeping[n]
    /\ now >= nextSweep[n]
    /\ sweeping' = [sweeping EXCEPT ![n] = TRUE]
    /\ UNCHANGED <<rt, content, started, now, nextSweep, last, call>>

\* the sweep task leaves the loop, having deleted the expired records, and
\* sleeps (node.go:89-93)
SweepEnd(n) ==
    /\ Running(n)
    /\ sweeping[n]
    /\ Apply(Run(updateContent(World, n, now), NoReturn, FALSE, <<>>))
    /\ sweeping' = [sweeping EXCEPT ![n] = FALSE]
    /\ nextSweep' = [nextSweep EXCEPT ![n] = now + updateTimer]
    /\ UNCHANGED <<now, last, call>>

\* the nodes whose map the operation that ran last read (FindValue,
\* node.go:150) or wrote (insertLocalStore, node.go:373, for a STORE)
Accessed ==
    (IF last.op = "FindValue" THEN {last.node} ELSE {})
    \cup {last.rpcs[i].to : i \in {j \in 1 .. Len(last.rpcs) :
              last.rpcs[j].type = "STORE" /\ ~last.rpcs[j].err}}

\* a map access that ran into the loop of the sweep task is a data race: the
\* access and the loop may both go through, or the runtime detects it and
\* ends the process ("fatal error: concurrent map ...")
Throw(n) ==
    /\ n \in Accessed
    /\ started[n] /\ sweeping[n]
    /\ Apply(Run(Crash(World, n), NoReturn, TRUE, <<>>))
    /\ sweeping' = [sweeping EXCEPT ![n] = FALSE]
    /\ last' = Last("throw", n, n, Run(World, NoReturn, TRUE, <<>>))
    /\ UNCHANGED <<now, nextSweep, call>>

\* ---- NodeLookup and FindValue, loop by loop
\* a call begins (node.go:98-106, 150-162): FindValue returns a local hit at
\* once; otherwise the shortlist is read from the table, currentClosest is
\* the sentinel and probedNodes is empty
CallBegin(n, op, targetID, hash) ==
    /\ Running(n)
    /\ call.pc = "idle"
    /\ call' = IF op = "FindValue" /\ hash \in DOMAIN content[n]
               THEN [NoCall EXCEPT !.pc = "returned", !.op = op, !.node = n,
                                   !.target = targetID, !.hash = hash]
               ELSE [NoCall EXCEPT !.pc = "round", !.op = op, !.node = n,
                                   !.target = targetID, !.hash = hash,
                                   !.shortList = FindClosestContacts(rt[n], targetID, alpha),
                                   !.closest = MaxDistance]
    /\ UNCHANGED <<rt, content, started, now, nextSweep, last, sweeping>>

\* the head of the outer loop (node.go:108-112, 164-168)
RoundStart ==
    /\ call.pc = "round"
    /\ call' = [call EXCEPT !.pc = "probe", !.updateClosest = FALSE, !.numProbed = 0,
                            !.i = 1, !.progress = FALSE, !.rounds = @ + 1]
    /\ UNCHANGED <<rt, content, started, now, nextSweep, last, sweeping>>

\* what the body of the inner loop does with the reply rep of shortList[i]
\* (node.go:118-137, 173-201): the world it leaves, where the call goes on,
\* the caller's shortlist and whether the callee saw progress.  The callees
\* work on copies of probedNodes, numProbed, currentClosest and
\* updateClosest: the caller's are not in the outcome.
ProbeOutcome(rep, kinds) ==
    LET n == call.node
        sl == call.shortList
        Out(w, pc, list, progress) ==
            [w |-> w, pc |-> pc, shortList |-> list, progress |-> progress]
    IN IF call.op = "FindValue" /\ (rep.nil \/ ~rep.payload)
       THEN {Out(Crash(rep.w, n), "panicked", sl, call.progress)}
       ELSE IF call.op = "FindValue" /\ rep.value # <<>>
       THEN IF Len(Split(rep.value)) < 2
            THEN {Out(Crash(rep.w, n), "panicked", sl, call.progress)}
            ELSE {Out(s.w, IF s.panic THEN "panicked" ELSE "returned", sl, call.progress) :
                     s \in StoreValue(rep.w, n, Split(rep.value)[2], now, kinds)}
       ELSE IF rep.err
       THEN {Out(WithRT(rep.w, n, RemoveContact(rep.w.rt[n], n, sl[call.i])),
                 "probe", RemoveAt(sl, call.i), call.progress)}
       ELSE {IF u.panic THEN Out(u.w, "panicked", sl, call.progress)
             ELSE Out(u.w, "probe", u.ret,
                      call.progress \/ CalcDistance(rep.contacts[1], call.target) < call.closest) :
                u \in updateShortlist(rep.w, n, call.target, sl, call.i, rep, kinds)}

\* one pass of the inner loop (node.go:112-139, 168-203)
Probe(kinds) ==
    /\ call.pc = "probe"
    /\ IF ~(call.i <= Len(call.shortList) /\ call.numProbed < alpha)
       THEN /\ call' = [call EXCEPT !.pc = "check"]
            /\ UNCHANGED <<rt, content, started>>
       ELSE IF call.shortList[call.i] \in Range(call.probedNodes)
       THEN /\ call' = [call EXCEPT !.i = @ + 1]
            /\ UNCHANGED <<rt, content, started>>
       ELSE \E rep \in (IF call.op = "NodeLookup"
                        THEN SendFindContactMessage(World, call.node, call.shortList[call.i],
                                                    call.target, kinds)
                        ELSE SendFindDataMessage(World, call.node, call.shortList[call.i],
                                                 call.hash, kinds)) :
               \E o \in ProbeOutcome(rep, kinds) :
                  /\ Apply(o)
                  /\ call' = [call EXCEPT !.pc = o.pc, !.shortList = o.shortList,
                                          !.progress = o.progress, !.i = @ + 1,
                                          !.sent = Append(@, call.shortList[call.i])]
    /\ UNCHANGED <<now, nextSweep, last, sweeping>>

\* the end of the outer loop (node.go:140-143, 204-207)
Check ==
    /\ call.pc = "check"
    /\ call' = [call EXCEPT !.pc = IF ~call.updateClosest
                                      \/ Len(call.probedNodes) >= BucketSize
                                   THEN "returned" ELSE "round"]
    /\ UNCHANGED <<rt, content, started, now, nextSweep, last, sweeping>>

\* the caller takes the result, or is gone with the process that panicked
CallEnd ==
    /\ call.pc \in {"returned", "panicked"}
    /\ call' = NoCall
    /\ UNCHANGED <<rt, content, started, now, nextSweep, last, sweeping>>

\* the caller takes the result of the operation that ran last
Return ==
    /\ ~Idle
    /\ last' = NoOp
    /\ UNCHANGED <<rt, content, started, now, nextSweep, sweeping, call>>

\* a second passes; a sweep task whose sleep is over runs before the next
Tick ==
    /\ Idle
    /\ now < MaxTime
    /\ \A n \in Nodes : started[n] => now < nextSweep[n]
    /\ now' = now + 1
    /\ UNCHANGED <<rt, content, started, nextSweep, last, sweeping, call>>

\* the state after construction: no process runs yet
Init ==
    /\ rt = [n \in Nodes |-> EmptyTable]
    /\ content = [n \in Nodes |-> NoContent]
    /\ started = [n \in Nodes |-> FALSE]
    /\ now = 0
    /\ nextSweep = [n \in Nodes |-> 0]
    /\ last = NoOp
    /\ sweeping = [n \in Nodes |-> FALSE]
    /\ call = NoCall

\* the network at a frozen clock, with peers that may time out or misbehave
Join == \E n \in Nodes : InitNode(n, AllKinds)
Lookup == \E n \in Nodes, t \in Targets : DoNodeLookup(n, t, AllKinds)
Store == \E n \in Nodes, v \in Values : DoStoreValue(n, v, AllKinds)
Find == \E n \in Nodes, k \in Keys : DoFindValue(n, k, AllKinds)
PingPeer == \E n \in Nodes, c \in Nodes : DoPing(n, c, AllKinds)

Next == Join \/ Lookup \/ Store \/ Find \/ PingPeer \/ Return

Spec == Init /\ [][Next]_vars

\* ------------------------------------------------------------- the mesh
\* the contacts c of every bucket of t belong there, once each, and the
\* bucket holds no more than BucketSize of them
ValidTable(t, me) ==
    \A b \in BucketIdx :
        /\ Len(t[b]) <= BucketSize
        /\ \A i \in 1 .. Len(t[b]) :
              /\ t[b][i] # me
              /\ getBucketIndex(me, t[b][i]) = b
              /\ \A j \in 1 .. Len(t[b]) : t[b][i] = t[b][j] => i = j

\* the buckets a node can hold: the sequences without repetition of at most
\* BucketSize of the other nodes that belong in the bucket
BucketsOf(me, b) ==
    LET S == {c \in Nodes \ {me} : getBucketIndex(me, c) = b}
    IN {q \in UNION {[1 .. k -> S] : k \in 0 .. BucketSize} :
           \A i, j \in 1 .. Len(q) : q[i] = q[j] => i = j}

TablesOf(me) == {t \in [BucketIdx -> UNION {BucketsOf(me, b) : b \in BucketIdx}] :
                    \A b \in BucketIdx : t[b] \in BucketsOf(me, b)}

\* the nodes n reaches by following routing-table entries
RECURSIVE ReachFrom(_, _)
ReachFrom(tables, S) ==
    LET T == S \cup UNION {TableContacts(tables[x]) : x \in S}
    IN IF T = S THEN S ELSE ReachFrom(tables, T)

Connected(tables) == \A n \in Nodes : ReachFrom(tables, {n}) = Nodes

\* a mesh: every node runs, every node is reachable from every node, the
\* stores are empty
MeshTables == [n \in Nodes |-> TablesOf(n)]

Meshes == {f \in [Nodes -> UNION {MeshTables[n] : n \in Nodes}] :
              (\A n \in Nodes : ValidTable(f[n], n)) /\ Connected(f)}

InitMesh ==
    /\ rt \in Meshes
    /\ content = [n \in Nodes |-> NoContent]
    /\ started = [n \in Nodes |-> TRUE]
    /\ now = 0
    /\ nextSweep = [n \in Nodes |-> 0]
    /\ last = NoOp
    /\ sweeping = [n \in Nodes |-> FALSE]
    /\ call = NoCall

\* every FIND_NODE is answered by the handler of the peer
MeshLookup == \E n \in Nodes, t \in Targets : DoNodeLookup(n, t, {Honest})

NextMesh == MeshLookup \/ Return

SpecMesh == InitMesh /\ [][NextMesh]_vars

\* ---------------------------------------------------------- the buckets
\* a mesh in which nodes hear from nodes; the least-recently-seen contact of
\* a full bucket answers the liveness ping, answers it without a type, or
\* does not answer
Offer == \E n \in Nodes, c \in Nodes : DoUpdateBucket(n, c, AllKinds)

NextBucket == Offer \/ Return

SpecBucket == InitMesh /\ [][NextBucket]_vars

\* ------------------------------------------------------ the expiry sweep
\* the rendezvous and one node that joins and stores; the clock runs and
\* the sweep tasks run; every RPC is answered
TTLKinds == {Honest}
TTLJoin == \E n \in {Rendezvous, 8} : InitNode(n, TTLKinds)
TTLStore == DoStoreValue(8, <<"a">>, TTLKinds)
TTLFind == \E n \in {Rendezvous, 8} : DoFindValue(n, KeyOf(<<"a">>), TTLKinds)
TTLSweep == \E n \in Nodes : Sweep(n)

NextTTL == TTLJoin \/ TTLStore \/ TTLFind \/ TTLSweep \/ Tick \/ Return

SpecTTL == Init /\ [][NextTTL]_vars


\* ------------------------------------------------- the sweep and the map
\* the rendezvous and one node that joins, stores and finds, while the sweep
\* tasks enter and leave their loop over the map; every RPC is answered
NextRace ==
    \/ \E n \in {Rendezvous, 8} : InitNode(n, TTLKinds)
    \/ DoStoreValue(8, <<"a">>, TTLKinds)
    \/ \E n \in {Rendezvous, 8} : DoFindValue(n, KeyOf(<<"a">>), TTLKinds)
    \/ \E n \in Nodes : SweepBegin(n)
    \/ \E n \in Nodes : SweepEnd(n)
    \/ \E n \in Nodes : Throw(n)
    \/ (Tick /\ \A n \in Nodes : ~sweeping[n])
    \/ Return

SpecRace == Init /\ [][NextRace]_vars


\* ------------------------------------------------------------ the rounds
\* a mesh in which lookups run loop by loop, with peers that may time out
\* or misbehave, and in which node 8 stores a value while no node holds one
LookupStep == RoundStart \/ Probe(AllKinds) \/ Check

NextRounds ==
    \/ \E n \in Nodes, t \in Targets : CallBegin(n, "NodeLookup", t, <<>>)
    \/ \E n \in Nodes, k \in Keys : CallBegin(n, "FindValue", NewNodeID(k), k)
    \/ LookupStep
    \/ CallEnd
    \/ (/\ call.pc = "idle"
        /\ content = [n \in Nodes |-> NoContent]
        /\ DoStoreValue(8, <<"a">>, {Honest}))
    \/ Return

SpecRounds == InitMesh /\ [][NextRounds]_vars

\* a lookup that has begun goes on: its goroutine is scheduled, and every
\* RPC it sends ends in a reply or in a timeout
SpecRoundsFair == SpecRounds /\ WF_vars(LookupStep)


\* ------------------------------------------------------------ the claims
\* the RPCs of the operation that ran last, by type
RpcsOf(type) == {i \in 1 .. Len(last.rpcs) : last.rpcs[i].type = type}

\* the peers whose RPC of that type failed in the operation that ran last
FailedPeers(type) == {last.rpcs[i].to : i \in {j \in RpcsOf(type) : last.rpcs[j].err}}

\* the node of S closest to the target
ClosestOf(S, targetID) ==
    CHOOSE x \in S : \A y \in S : CalcDistance(x, targetID) <= CalcDistance(y, targetID)

\* C1: in a mesh in which every node is reachable and every FIND_NODE is
\* answered, the list NodeLookup(T) returns on a source S starts with the
\* node of the mesh (S apart: a lookup never returns its own node) that has
\* the minimum XOR distance to T.
C1_ClosestNodeFirst ==
    (last.op = "NodeLookup" /\ ~last.panic) =>
        /\ last.ret # <<>>
        /\ last.ret[1] = ClosestOf(Nodes \ {last.node}, last.arg)

\* the age, at the time it was served, of the record a FindValue returned
ServedAge == last.sec - ParseInt(Split(last.ret[1])[1]).n

\* FindValue answered from the local store: it returned a value and sent no RPC
ServedLocally ==
    last.op = "FindValue" /\ ~last.panic /\ last.rpcs = <<>> /\ last.ret[2] = ""

\* C2: a record FindValue serves from the local store is at most deadline
\* seconds old: 11 s after it was stored the answer is not the value.
C2_ServedWithinTTL == ServedLocally => ServedAge <= deadline

\* StoreValue returned on a node whose routing table was empty: its lookup
\* found no contact and sent nothing
StoredAlone == last.op = "StoreValue" /\ ~last.panic /\ last.rpcs = <<>>

\* the value of a stored string "<stored-at>:<value>": what follows the
\* first separator
Carried(record) ==
    LET k == CHOOSE i \in 1 .. Len(record) :
                 record[i] = ":" /\ \A j \in 1 .. (i - 1) : record[j] # ":"
    IN SubSeq(record, k + 1, Len(record))

HasSeparator(record) == \E i \in 1 .. Len(record) : record[i] = ":"

\* C3: StoreValue(v) on a node with an empty routing table returns the
\* lowercase-hex SHA-1 of v, and the node's own store then holds a record
\* under that key that carries v.
C3_SingleNodeStorePersists ==
    StoredAlone =>
        /\ last.ret = KeyOf(last.arg)
        /\ last.ret \in DOMAIN content[last.node]
        /\ HasSeparator(content[last.node][last.ret])
        /\ Carried(content[last.node][last.ret]) = last.arg

\* C4: FindValue(k) that finds a value returns exactly the value v that was
\* stored under k = SHA-1(v), on the node that stored it and on its peers.
C4_RoundTrip ==
    (last.op = "FindValue" /\ ~last.panic /\ last.ret[2] = "") =>
        \E v \in Values : last.ret[1] = v /\ KeyOf(v) = last.arg

\* C5: no outcome of an outbound RPC makes the node panic: every operation
\* returns.
C5_NoPanic == ~last.panic

\* InitNode has returned on a node that is not the rendezvous
Joined == last.op = "InitNode" /\ last.node # Rendezvous /\ ~last.panic

\* C6 as claimed: after the join the routing table of the node contains the
\* rendezvous, whatever became of the FIND_NODE of the lookup on self.
C6_TableHoldsRendezvous_Original ==
    Joined => Rendezvous \in TableContacts(rt[last.node])

\* C6, amended: after the join the routing table of the node contains the
\* rendezvous exactly when the FIND_NODE the lookup on self sent to the
\* rendezvous did not fail; a failed FIND_NODE removes the rendezvous.
C6_TableHoldsRendezvous ==
    Joined =>
        /\ RpcsOf("FIND_NODE") # {}
        /\ (Rendezvous \in TableContacts(rt[last.node]))
               <=> (FailedPeers("FIND_NODE") = {})

\* a join in which the FIND_NODE to the rendezvous failed
C6_Witness ==
    Joined /\ FailedPeers("FIND_NODE") = {Rendezvous}
           /\ Rendezvous \notin TableContacts(rt[last.node])

\* C7: a peer whose FIND_NODE or FIND_VALUE failed in a lookup is out of the
\* list the lookup returns and out of the routing table, and the lookup
\* returns (the failure is not handed to the caller: NodeLookup returns its
\* list, FindValue at worst "no value found").
C7_FailedPeersDropped ==
    (last.op \in {"NodeLookup", "FindValue"}
        /\ FailedPeers("FIND_NODE") \cup FailedPeers("FIND_VALUE") # {}) =>
        /\ ~last.panic
        /\ (FailedPeers("FIND_NODE") \cup FailedPeers("FIND_VALUE"))
               \cap TableContacts(rt[last.node]) = {}
        /\ last.op = "NodeLookup" => FailedPeers("FIND_NODE") \cap Range(last.ret) = {}

\* the peers StoreValue sent a STORE to, in the order of the RPCs
RECURSIVE StoreTargets(_)
StoreTargets(i) ==
    IF i > Len(last.rpcs) THEN <<>>
    ELSE IF last.rpcs[i].type = "STORE"
         THEN <<last.rpcs[i].to>> \o StoreTargets(i + 1)
         ELSE StoreTargets(i + 1)

\* the peers that answered the STORE without an error
StoredPeers == {last.rpcs[i].to : i \in {j \in RpcsOf("STORE") : ~last.rpcs[j].err}}

\* the contacts the routing table lost since the lookup of StoreValue returned
RemovedSinceLookup == last.nodes.table \ TableContacts(rt[last.node])

\* the least-recently-seen contacts whose ping, sent by updateBucket after a
\* STORE, failed
FailedLivenessPings ==
    {last.rpcs[i].to :
        i \in {j \in RpcsOf("PING") :
                  last.rpcs[j].err /\ \E k \in RpcsOf("STORE") : k < j}}

\* StoreValue(v) sent one STORE(key, stored-at:v) to each contact of its lookup
OneStoreEach ==
    /\ StoreTargets(1) = last.nodes.list
    /\ \A p \in StoredPeers :
          /\ KeyOf(last.arg) \in DOMAIN content[p]
          /\ content[p][KeyOf(last.arg)] = FormatInt(last.sec) \o <<":">> \o last.arg

\* C8 as claimed: StoreValue sends one STORE to each contact of its lookup,
\* returns the key, and the contacts the routing table loses are exactly the
\* peers whose STORE failed.
C8_StoreToEach_Original ==
    (last.op = "StoreValue" /\ ~last.panic) =>
        /\ OneStoreEach
        /\ last.ret = KeyOf(last.arg)
        /\ RemovedSinceLookup = FailedPeers("STORE") \cap last.nodes.table

\* C8, amended: StoreValue sends one STORE(key, stored-at:v) to each contact
\* of its lookup; a peer whose STORE failed is out of the routing table, and
\* the table loses nothing else but the least-recently-seen contact of a full
\* bucket whose liveness ping (updateBucket, after a STORE that succeeded)
\* failed; a failed STORE neither changes the result, the key, nor makes
\* StoreValue panic: it panics only in its lookup or in a liveness ping.
C8_StoreToEach ==
    last.op = "StoreValue" =>
        /\ ~last.panic =>
              /\ OneStoreEach
              /\ last.ret = KeyOf(last.arg)
              /\ FailedPeers("STORE") \cap TableContacts(rt[last.node]) = {}
              /\ RemovedSinceLookup \subseteq
                     (FailedPeers("STORE") \cup FailedLivenessPings)
        /\ last.panic =>
              /\ last.rpcs # <<>>
              /\ last.rpcs[Len(last.rpcs)].type \in {"FIND_NODE", "PING"}

\* StoreValue returned the key although the STORE to a contact of its
\* routing table failed
C8_Witness ==
    /\ last.op = "StoreValue" /\ ~last.panic
    /\ last.ret = KeyOf(last.arg)
    /\ FailedPeers("STORE") \cap last.nodes.table # {}

\* C9: FindValue(k) returns a value only if the local store holds k or the
\* reply of a probed peer carried that value; when the local store does not
\* hold k and no reply carried a value, FindValue returns the error
\* "no value found" and the empty value.
C9_ValueOrNotFound ==
    [][last'.op = "FindValue" =>
          /\ (~last'.panic /\ last'.ret[2] = "") =>
                \/ last'.arg \in DOMAIN content[last'.node]
                \/ \E i \in 1 .. Len(last'.rpcs) :
                      /\ last'.rpcs[i].type = "FIND_VALUE"
                      /\ last'.rpcs[i].value # <<>>
                      /\ last'.rpcs[i].value = last'.ret[1]
          /\ (/\ last'.arg \notin DOMAIN content[last'.node]
              /\ \A i \in 1 .. Len(last'.rpcs) :
                    last'.rpcs[i].type = "FIND_VALUE" => last'.rpcs[i].value = <<>>) =>
                (~last'.panic /\ last'.ret = NotFound)]_vars

\* C10: FindValue(k) for a key k of the local store returns the stored
\* record, sends no RPC and leaves the routing tables and the stores as
\* they are.
C10_LocalHitHasNoEffect ==
    [][(last'.op = "FindValue" /\ last'.arg \in DOMAIN content[last'.node]) =>
          /\ ~last'.panic
          /\ last'.ret = Found(content[last'.node][last'.arg])
          /\ last'.rpcs = <<>>
          /\ rt' = rt /\ content' = content /\ started' = started]_vars

\* FindValue found the key in the store of its node
C10_Witness ==
    /\ last.op = "FindValue" /\ ~last.panic /\ last.rpcs = <<>>
    /\ last.arg \in DOMAIN content[last.node]
    /\ last.ret = Found(content[last.node][last.arg])

\* C11: NodeLookup(target) on a node whose routing table holds no contact
\* returns the empty list, sends no RPC and does not fail, for every target;
\* it changes nothing.
C11_EmptyTableLookup ==
    [][(last'.op = "NodeLookup" /\ TableContacts(rt[last'.node]) = {}) =>
          /\ ~last'.panic
          /\ last'.ret = <<>>
          /\ last'.rpcs = <<>>
          /\ rt' = rt /\ content' = content /\ started' = started]_vars

\* NodeLookup returned on a node whose routing table holds no contact
C11_Witness ==
    /\ last.op = "NodeLookup" /\ ~last.panic
    /\ last.ret = <<>> /\ last.rpcs = <<>>
    /\ TableContacts(rt[last.node]) = {}

\* the peers that answered a FIND_NODE of the lookup that ends in this step
Answering == {last'.rpcs[i].to : i \in {j \in 1 .. Len(last'.rpcs) :
                  last'.rpcs[j].type = "FIND_NODE" /\ ~last'.rpcs[j].err}}

\* the initial shortlist of the lookup together with the contacts every
\* answering peer returned, its own node apart
MergedSet ==
    (Range(FindClosestContacts(rt[last'.node], last'.arg, alpha))
        \cup UNION {Range(FindClosestContacts(rt'[p], last'.arg, BucketSize)) : p \in Answering})
    \ {last'.node}

\* C14: the list a NodeLookup returns is the merge of its initial shortlist
\* with the contacts every answering peer returned: without its own node,
\* without duplicate, in ascending XOR distance to the target, cut to the
\* BucketSize closest of the merged set.
C14_MergedShortlist ==
    [][(last'.op = "NodeLookup" /\ ~last'.panic) =>
          last'.ret = FirstN(SortByDistance(MergedSet, last'.arg), BucketSize)]_vars


\* FindValue returned a value that the reply of a probed peer carried
RemoteHit ==
    /\ last.op = "FindValue" /\ ~last.panic /\ last.ret[2] = ""
    /\ RpcsOf("FIND_VALUE") # {}

\* the FIND_VALUE whose reply carried the value is the last one FindValue sent
NoProbeAfterHit ==
    \A i \in RpcsOf("FIND_VALUE") :
        last.rpcs[i].value # <<>> => \A j \in RpcsOf("FIND_VALUE") : j <= i

\* C16: when the reply of a probed peer carries a value, FindValue(k) probes
\* no further peer and returns, and the local store of the node that called
\* it then holds under k a record that carries that value and the time of
\* the call as its stored-at time.
C16_RemoteHitCached ==
    RemoteHit =>
        /\ NoProbeAfterHit
        /\ last.arg \in DOMAIN content[last.node]
        /\ content[last.node][last.arg] = DataPackage(last.sec, Carried(last.ret[1]))

\* InitNode returned on a node that joined, and no RPC of the join failed
JoinedUnhindered == Joined /\ \A i \in 1 .. Len(last.rpcs) : ~last.rpcs[i].err

\* C19: a join runs, besides the lookup on the node's own ID, one NodeLookup
\* per bucket index 1 .. IDBits - 1 (159 in the code).  After a join in which
\* no RPC failed the table holds a contact, so each of these lookups sends at
\* least one FIND_NODE: the join sends at least IDBits of them.
C19_RefreshAtJoin ==
    JoinedUnhindered => Cardinality(RpcsOf("FIND_NODE")) >= 1 + (IDBits - 1)

\* the liveness pings of the updateBucket that ends in this step
LivenessPings == {i \in 1 .. Len(last'.rpcs) : last'.rpcs[i].type = "PING"}

\* C17: updateBucket(c) on a full bucket that does not hold c sends one ping,
\* to the least-recently-seen contact f of the bucket.  If f does not respond
\* f is out of the bucket and c is in it; if f responds f is at the back of
\* the bucket, c is not in it and the bucket holds the contacts it held.
\* Whatever the outcome, no bucket holds more than BucketSize contacts or the
\* same contact twice.
C17_FullBucketPolicy ==
    [][last'.op = "updateBucket" =>
          LET n == last'.node
              c == last'.arg
              old == rt[n][getBucketIndex(n, c)]
              new == rt'[n][getBucketIndex(n, c)]
          IN /\ (Len(old) >= BucketSize /\ c \notin Range(old)) =>
                    /\ Cardinality(LivenessPings) = 1
                    /\ \A i \in LivenessPings :
                          /\ last'.rpcs[i].to = GetFirst(old)
                          /\ last'.rpcs[i].err =>
                                (GetFirst(old) \notin Range(new) /\ c \in Range(new))
                          /\ ~last'.rpcs[i].err =>
                                /\ Range(new) = Range(old)
                                /\ new # <<>> /\ new[Len(new)] = GetFirst(old)
                                /\ c \notin Range(new)
             /\ \A m \in Nodes : ValidTable(rt'[m], m)]_vars

\* C18: the sweep of the value store never overlaps a read of the store by
\* FindValue or a write by insertLocalStore: no node is inside the loop of
\* its sweep task while its map is read or written.
C18_StoreAccessExclusive == \A n \in Accessed : ~sweeping[n]

\* C15: when a response of a round brought a contact closer to the target
\* than closest, closest is updated by the end of the round, and the lookup
\* runs another round unless every contact of its shortlist has been probed.
C15_RoundProgression ==
    [][(call.pc = "check" /\ call.progress) =>
          /\ call.closest < MaxDistance
          /\ call'.pc = "round" \/ Range(call.shortList) \subseteq Range(call.sent)]_vars

\* C20: every call of NodeLookup and of FindValue returns, whatever the
\* table, the target and the outcomes of its RPCs.
C20_LookupReturns == (call.pc \in {"round", "probe", "check"}) ~> (call.pc = "returned")

\* ------------------------------------------------------------ the codec
\* A pointer field is absent (nil) or present: the empty sequence or the
\* sequence of its one value.
None == <<>>
Some(x) == <<x>>

\* A string of the codec is a sequence of chunks of text.  The chunk Invalid
\* stands for bytes that are not valid UTF-8; Replacement for U+FFFD.
Invalid == "\\xff"
Replacement == "\\ufffd"

\* RPCType constants and rpcTypes (part_000:14-26)
rpcTypes == {<<"PING">>, <<"STORE">>, <<"FIND_VALUE">>, <<"FIND_NODE">>, <<"OK">>}
errWrongType == "unexpected rpc type given"

\* type RPC struct and type Payload struct (part_000:30-41)
RPC(type, payload, id, senderIP) ==
    [Type |-> type, Payload |-> payload, ID |-> id, SenderIP |-> senderIP]
Payload(value, contacts) == [Value |-> value, Contacts |-> contacts]

\* a Contact: the exported ID and Address and the unexported distance
\* (node.go:47, node.go:103)
NewContact(id, address, distance) == [ID |-> id, Address |-> address, distance |-> distance]

\* validateRPCType (part_000:57-64): the error, "" for nil
validateRPCType(rpc) == IF rpc \in rpcTypes THEN "" ELSE errWrongType

\* NewRPC (part_000:44-55) with the random ID drawn: the pair (*RPC, error)
NewRPC(rpc, senderID, payload, randomID) ==
    IF validateRPCType(rpc) # "" THEN <<None, errWrongType>>
    ELSE <<Some(RPC(Some(rpc), Some(payload), Some(randomID), Some(senderID))), "">>

\* The encoded text is a sequence of tokens: <<"{">>, <<"}">>, <<"[">>,
\* <<"]">>, <<"null">>, <<"key", name>>, <<"str", string>>, <<"num", n>>.
\* json.Marshal of a string: invalid UTF-8 is replaced by U+FFFD
EncString(str) ==
    <<"str", [i \in 1 .. Len(str) |-> IF str[i] = Invalid THEN Replacement ELSE str[i]]>>

EncOptString(o) == IF o = None THEN << <<"null">> >> ELSE <<EncString(o[1])>>

\* json.Marshal of a Contact: the exported fields; distance is not encoded
EncContact(c) ==
    << <<"{">>, <<"key", "ID">>, <<"num", c.ID>>,
       <<"key", "Address">>, EncString(c.Address), <<"}">> >>

RECURSIVE EncContactList(_)
EncContactList(cs) ==
    IF cs = <<>> THEN <<>> ELSE EncContact(Head(cs)) \o EncContactList(Tail(cs))

\* json.Marshal of []Contact: null for a nil slice
EncContacts(o) ==
    IF o = None THEN << <<"null">> >>
    ELSE << <<"[">> >> \o EncContactList(o[1]) \o << <<"]">> >>

\* json.Marshal of *Payload
EncPayload(o) ==
    IF o = None THEN << <<"null">> >>
    ELSE << <<"{">>, <<"key", "value">> >> \o EncOptString(o[1].Value)
         \o << <<"key", "contacts">> >> \o EncContacts(o[1].Contacts)
         \o << <<"}">> >>

\* MarshalRPC (part_000:67-72): the pair (data, error); json.Marshal has no
\* error for this struct
MarshalRPC(rpc) ==
    << << <<"{">>, <<"key", "type">> >> \o EncOptString(rpc.Type)
       \o << <<"key", "payload">> >> \o EncPayload(rpc.Payload)
       \o << <<"key", "id">> >> \o EncOptString(rpc.ID)
       \o << <<"key", "senderIP">> >> \o EncOptString(rpc.SenderIP)
       \o << <<"}">> >>,
       "" >>

\* json.Unmarshal reads the tokens from position i: a parse is
\* [ok, next, val], the position after what was read and the value read
Fail == [ok |-> FALSE, next |-> 0, val |-> None]
Ok(next, val) == [ok |-> TRUE, next |-> next, val |-> val]
Tok(d, i) == IF i <= Len(d) THEN d[i] ELSE <<"eof">>

\* a *string field: null leaves it nil, anything but a string is an error
DecOptString(d, i) ==
    LET t == Tok(d, i) IN
    IF t[1] = "null" THEN Ok(i + 1, None)
    ELSE IF t[1] = "str" THEN Ok(i + 1, Some(t[2]))
    ELSE Fail

\* the value of a key the struct does not have is skipped
SkipValue(d, i, val) ==
    IF Tok(d, i)[1] \in {"null", "str", "num"} THEN Ok(i + 1, val) ELSE Fail

RECURSIVE ContactFields(_, _, _)
ContactFields(d, i, acc) ==
    LET t == Tok(d, i)
        v == Tok(d, i + 1)
    IN IF t[1] = "}" THEN Ok(i + 1, acc)
       ELSE IF t[1] # "key" THEN Fail
       ELSE IF v[1] = "null" THEN ContactFields(d, i + 2, acc)
       ELSE IF t[2] = "ID"
            THEN IF v[1] = "num" THEN ContactFields(d, i + 2, [acc EXCEPT !.ID = v[2]])
                 ELSE Fail
       ELSE IF t[2] = "Address"
            THEN IF v[1] = "str" THEN ContactFields(d, i + 2, [acc EXCEPT !.Address = v[2]])
                 ELSE Fail
       ELSE IF SkipValue(d, i + 1, acc).ok THEN ContactFields(d, i + 2, acc)
       ELSE Fail

\* a Contact: the decoded one has no distance
DecContact(d, i) ==
    IF Tok(d, i)[1] = "{" THEN ContactFields(d, i + 1, NewContact(0, <<>>, None)) ELSE Fail

RECURSIVE ContactElems(_, _, _)
ContactElems(d, i, acc) ==
    IF Tok(d, i)[1] = "]" THEN Ok(i + 1, Some(acc))
    ELSE LET r == DecContact(d, i) IN
         IF r.ok THEN ContactElems(d, r.next, Append(acc, r.val)) ELSE Fail

\* a []Contact field: null is the nil slice
DecContacts(d, i) ==
    LET t == Tok(d, i) IN
    IF t[1] = "null" THEN Ok(i + 1, None)
    ELSE IF t[1] = "[" THEN ContactElems(d, i + 1, <<>>)
    ELSE Fail

RECURSIVE PayloadFields(_, _, _)
PayloadFields(d, i, acc) ==
    LET t == Tok(d, i) IN
    IF t[1] = "}" THEN Ok(i + 1, Some(acc))
    ELSE IF t[1] # "key" THEN Fail
    ELSE LET r == IF t[2] = "value" THEN DecOptString(d, i + 1)
                  ELSE IF t[2] = "contacts" THEN DecContacts(d, i + 1)
                  ELSE SkipValue(d, i + 1, None)
         IN IF ~r.ok THEN Fail
            ELSE PayloadFields(d, r.next,
                    IF t[2] = "value" THEN [acc EXCEPT !.Value = r.val]
                    ELSE IF t[2] = "contacts" THEN [acc EXCEPT !.Contacts = r.val]
                    ELSE acc)

\* a *Payload field
DecPayload(d, i) ==
    LET t == Tok(d, i) IN
    IF t[1] = "null" THEN Ok(i + 1, None)
    ELSE IF t[1] = "{" THEN PayloadFields(d, i + 1, Payload(None, None))
    ELSE Fail

RECURSIVE TopFields(_, _, _)
TopFields(d, i, acc) ==
    LET t == Tok(d, i) IN
    IF t[1] = "}" THEN Ok(i + 1, acc)
    ELSE IF t[1] # "key" THEN Fail
    ELSE LET r == IF t[2] \in {"type", "id", "senderIP"} THEN DecOptString(d, i + 1)
                  ELSE IF t[2] = "payload" THEN DecPayload(d, i + 1)
                  ELSE SkipValue(d, i + 1, None)
         IN IF ~r.ok THEN Fail
            ELSE TopFields(d, r.next,
                    IF t[2] = "type" THEN [acc EXCEPT !.Type = r.val]
                    ELSE IF t[2] = "payload" THEN [acc EXCEPT !.Payload = r.val]
                    ELSE IF t[2] = "id" THEN [acc EXCEPT !.ID = r.val]
                    ELSE IF t[2] = "senderIP" THEN [acc EXCEPT !.SenderIP = r.val]
                    ELSE acc)

\* UnmarshalRPC (part_000:75-83): the pair (*RPC, error).  The type is a
\* string to json.Unmarshal: nothing compares it with rpcTypes.
UnmarshalRPC(data) ==
    LET r == IF Tok(data, 1)[1] = "{" THEN TopFields(data, 2, RPC(None, None, None, None))
             ELSE Fail
    IN IF r.ok /\ r.next = Len(data) + 1 THEN <<Some(r.val), "">>
       ELSE <<None, "json: cannot unmarshal">>

\* the envelopes of the model: every kind, a kind that is none of rpcTypes,
\* every field absent or present, a value that is not valid UTF-8, a contact
\* with and without its distance
CodecKinds == rpcTypes \cup {<<"BOGUS">>}
CodecValues == {None, Some(<<"a">>), Some(<<Invalid>>)}
CodecContacts ==
    {None, Some(<<>>), Some(<<NewContact(8, <<"h">>, None)>>),
     Some(<<NewContact(8, <<"h">>, Some(7))>>)}
CodecPayloads ==
    {None} \cup {Some(Payload(v, c)) : v \in CodecValues, c \in CodecContacts}
CodecIDs == {None, Some(<<"i">>)}

Envelopes ==
    {RPC(t, p, id, ip) :
        t \in {None} \cup {Some(k) : k \in CodecKinds},
        p \in CodecPayloads, id \in CodecIDs, ip \in CodecIDs}

\* a valid envelope: its kind is one of rpcTypes
ValidEnvelope(r) == r.Type # None /\ r.Type[1] \in rpcTypes

\* texts that no MarshalRPC wrote: the empty text, a cut one, a number where
\* the kind is read, an object without fields, an object with another key
Malformed ==
    { <<>>,
      << <<"{">> >>,
      << <<"{">>, <<"key", "type">>, <<"num", 1>>, <<"}">> >>,
      << <<"{">>, <<"}">> >>,
      << <<"{">>, <<"key", "x">>, <<"null">>, <<"}">> >> }

\* the texts a decoder is given
Wire == {MarshalRPC(r)[1] : r \in Envelopes} \cup Malformed

CodecLast(op, arg, ret) ==
    [op |-> op, node |-> Rendezvous, arg |-> arg, sec |-> 0,
     ret |-> ret, panic |-> FALSE, rpcs |-> <<>>, nodes |-> NoNodes]

DoNewRPC ==
    \E k \in CodecKinds, p \in CodecPayloads \ {None}, id \in CodecIDs \ {None} :
        /\ last' = CodecLast("NewRPC", <<k, p[1], id[1]>>, NewRPC(k, <<"s">>, p[1], id[1]))
        /\ UNCHANGED <<rt, content, started, now, nextSweep, sweeping, call>>

DoMarshalRPC ==
    \E r \in Envelopes :
        /\ last' = CodecLast("MarshalRPC", r, MarshalRPC(r))
        /\ UNCHANGED <<rt, content, started, now, nextSweep, sweeping, call>>

DoUnmarshalRPC ==
    \E data \in Wire :
        /\ last' = CodecLast("UnmarshalRPC", data, UnmarshalRPC(data))
        /\ UNCHANGED <<rt, content, started, now, nextSweep, sweeping, call>>

NextCodec == DoNewRPC \/ DoMarshalRPC \/ DoUnmarshalRPC

SpecCodec == Init /\ [][NextCodec]_vars

\* the envelopes whose encoding is the text that was decoded last
EncodedAs(data) == {r \in Envelopes : MarshalRPC(r)[1] = data}

\* C12: UnmarshalRPC of an encoded envelope whose kind is none of PING,
\* STORE, FIND_NODE, FIND_VALUE, OK returns an error and no envelope; of an
\* encoded envelope of a known kind, whatever fields are absent, it returns
\* an envelope of that kind and no error.
C12_UnknownKindRejected ==
    last.op = "UnmarshalRPC" =>
        \A r \in EncodedAs(last.arg) :
            /\ (r.Type # None /\ r.Type[1] \notin rpcTypes) =>
                  (last.ret[1] = None /\ last.ret[2] # "")
            /\ ValidEnvelope(r) =>
                  (last.ret[2] = "" /\ last.ret[1] # None
                      /\ last.ret[1][1].Type = r.Type)

\* two contact lists are equal: ID by ID and address by address (the
\* distance of a contact is derived, not part of the envelope)
SameContacts(a, b) ==
    /\ (a = None) <=> (b = None)
    /\ a # None =>
          /\ Len(a[1]) = Len(b[1])
          /\ \A i \in 1 .. Len(a[1]) :
                a[1][i].ID = b[1][i].ID /\ a[1][i].Address = b[1][i].Address

\* two envelopes are equal field by field
SameEnvelope(a, b) ==
    /\ a.Type = b.Type /\ a.ID = b.ID /\ a.SenderIP = b.SenderIP
    /\ (a.Payload = None) <=> (b.Payload = None)
    /\ a.Payload # None =>
          /\ a.Payload[1].Value = b.Payload[1].Value
          /\ SameContacts(a.Payload[1].Contacts, b.Payload[1].Contacts)

\* C13: for every valid envelope r, UnmarshalRPC(MarshalRPC(r)) returns no
\* error and an envelope equal to r field by field.
C13_CodecRoundTrip ==
    last.op = "UnmarshalRPC" =>
        \A r \in EncodedAs(last.arg) :
            ValidEnvelope(r) =>
                (last.ret[2] = "" /\ last.ret[1] # None
                    /\ SameEnvelope(last.ret[1][1], r))

====
